---- MODULE Spec2Model ----
(***************************************************************************)
(* BankSync: incremental synchronisation of bank transactions from a       *)
(* spreadsheet into a Grist table.                                         *)
(*                                                                         *)
(* Two specifications share this module.                                   *)
(*   Spec    the wrapper run_bank_sync.main and the scripts it launches    *)
(*           (BankSync.py, createGristRecords.py, uploadToGrist.py) over   *)
(*           the data directory, the upload directory, the archive and     *)
(*           the destination table.                                        *)
(*   SpecFn  the pure functions of createGristRecords.py and               *)
(*           gristbankupdater.py applied to inputs drawn from bounded      *)
(*           sets.                                                         *)
(*   SpecDays the wrapper run day after day, over the CSV files of the     *)
(*           upload directory by name and modification time.               *)
(***************************************************************************)
EXTENDS Integers, Sequences, FiniteSets, TLC

VARIABLES
    sheet,        \* rows of the spreadsheet source (unchanged during a behaviour)
    dataFile,     \* today's data file in DATA_DIR: <<>>-wrapped sequence of records, or absent
    uploadDir,    \* today's CSV in UPLOAD_GRIST_DIR, or absent
    archive,      \* names of the files moved to ARCHIVE_DIR, in order
    grist,        \* the destination table: inserted records, in insertion order
    pc,           \* position of the wrapper process
    run,          \* history: facts about the current and the previous wrapper run
    fn,           \* SpecFn: the last function application (operation, inputs, result)
    days          \* SpecDays: the date, the CSVs of the upload directory and the wrapper

vars == <<sheet, dataFile, uploadDir, archive, grist, pc, run, fn, days>>

(***************************************************************************)
(* Bounds of the model.                                                    *)
(***************************************************************************)
MaxRows == 2      \* rows in the spreadsheet source
MaxGrist == 4     \* records the destination table may hold
MaxRuns == 2      \* wrapper runs in one behaviour
MaxResponse == 3  \* records of the destination table in the SpecFn inputs
MaxLimit == 3     \* largest query window (the limit parameter) tried in SpecFn
MaxAmountLen == 3 \* characters of an amount text in the SpecFn inputs
MaxFileLen == 2   \* records of a data file in the SpecFn inputs
MaxTable == 2     \* records of the destination table in the classification inputs
MaxCsvFiles == 2  \* CSV files in the upload directory when an entry point starts
MaxArchiveOps == 3 \* archive operations in a row in the SpecFn inputs
MaxRowNum == 2    \* largest row number of a record in the SpecFn inputs
MaxCsvRows == 2   \* rows of a CSV in the SpecFn inputs
MaxDays == 3      \* days in one behaviour of SpecDays

(***************************************************************************)
(* Optional values (Python's Optional[...]).                               *)
(***************************************************************************)
Nothing == [ok |-> FALSE, v |-> 0]
Just(x) == [ok |-> TRUE, v |-> x]

(***************************************************************************)
(* Date values.  A date value is absent (None), the empty text, a text no  *)
(* pattern accepts, or a text of three numbers and an optional time:       *)
(*   sep "/"   :  a/b/2025 [00:00:t]                                       *)
(*   sep "-"   :  a-b-2025 [00:00:t]                                       *)
(*   sep "iso" :  2025-a-b [00:00:t]                                       *)
(* t = -1 stands for a text without a time part.                           *)
(***************************************************************************)
DayMonthVals == {2, 7, 13}
TimeVals == {-1, 0, 1}

NoneDate == [k |-> "none", sep |-> "/", a |-> 2, b |-> 2, t |-> -1]
EmptyDate == [k |-> "empty", sep |-> "/", a |-> 2, b |-> 2, t |-> -1]
JunkDate == [k |-> "junk", sep |-> "/", a |-> 2, b |-> 2, t |-> -1]
DateText(sep, a, b, t) == [k |-> "text", sep |-> sep, a |-> a, b |-> b, t |-> t]

\* datetime(2025, m, d, 0, 0, s) as a number that orders like the instants.
Instant(m, d, s) == m * 1000 + d * 10 + s

DaysIn(m) == IF m = 2 THEN 28 ELSE IF m \in {4, 6, 9, 11} THEN 30 ELSE 31

ValidDate(m, d) == m \in 1..12 /\ d \in 1..DaysIn(m)

\* The strptime patterns, by field order, separator and whether a time is read.
Fmt(order, sep, time) == [order |-> order, sep |-> sep, time |-> time]

\* datetime.strptime(text, fmt): the instant, or Nothing for ValueError.  Every
\* text writes the year with four digits, so a pattern with %y (order "dmy2")
\* leaves two digits unread and raises ValueError.
Strptime(d, f) ==
    IF d.k # "text" THEN Nothing
    ELSE IF f.order = "dmy2" THEN Nothing
    ELSE IF f.order = "ymd"
    THEN IF d.sep = "iso" /\ (f.time <=> d.t >= 0) /\ ValidDate(d.a, d.b)
         THEN Just(Instant(d.a, d.b, IF d.t >= 0 THEN d.t ELSE 0))
         ELSE Nothing
    ELSE IF d.sep # f.sep \/ ~(f.time <=> d.t >= 0) THEN Nothing
    ELSE IF f.order = "md"
    THEN IF ValidDate(d.a, d.b)
         THEN Just(Instant(d.a, d.b, IF d.t >= 0 THEN d.t ELSE 0))
         ELSE Nothing
    ELSE IF ValidDate(d.b, d.a)
         THEN Just(Instant(d.b, d.a, IF d.t >= 0 THEN d.t ELSE 0))
         ELSE Nothing

\* The loops "for fmt in ...: try strptime ... break": the first pattern that parses.
RECURSIVE FirstParse(_, _)
FirstParse(d, fmts) ==
    IF fmts = <<>> THEN Nothing
    ELSE IF Strptime(d, Head(fmts)).ok THEN Strptime(d, Head(fmts))
    ELSE FirstParse(d, Tail(fmts))

\* The patterns without AM/PM of createGristRecords._parse_date_string.
mm_dd_yyyy_formats ==
    << Fmt("md", "-", TRUE), Fmt("md", "-", FALSE),
       Fmt("md", "/", TRUE), Fmt("md", "/", FALSE) >>

dd_mm_yyyy_formats ==
    << Fmt("dm", "-", TRUE), Fmt("dm", "/", TRUE),
       Fmt("dm", "-", FALSE), Fmt("dm", "/", FALSE) >>

yyyy_formats == << Fmt("ymd", "iso", TRUE), Fmt("ymd", "iso", FALSE) >>


\* bank_name and bank_name.upper() == 'ICICI'
IsICICI(bank) == bank \in {"ICICI", "icici"}

\* A count of seconds since the Unix epoch: hi * 100000 + lo, negative when neg
\* (the limit 4102444800 does not fit the 32-bit integers of TLC, so a count is
\* kept in two parts).  A date value can be a text of digits or a number (int).
Epoch(neg, hi, lo) == [neg |-> neg, hi |-> hi, lo |-> lo]
DateDigits(e) == [k |-> "digits", e |-> e]
DateNumber(e) == [k |-> "number", e |-> e]

\* "if not date_value" for a number: the number is 0.
IsZero(e) == e.hi = 0 /\ e.lo = 0

\* 0 <= timestamp <= 4102444800
InTimestampRange(e) ==
    /\ ~e.neg \/ IsZero(e)
    /\ e.hi < 41024 \/ (e.hi = 41024 /\ e.lo <= 44800)

\* datetime.fromtimestamp(timestamp): the local time of that second, kept as the
\* second itself (no date text of the model denotes an instant outside 2025).
FromTimestamp(e) == [epoch |-> e]

\* createGristRecords._parse_unix_timestamp (uploadToGrist has the same function)
_parse_unix_timestamp(e) ==
    IF InTimestampRange(e) THEN Just(FromTimestamp(e)) ELSE Nothing

\* createGristRecords._parse_date_string
_parse_date_string(d, bank) ==
    LET format_priority ==
            IF IsICICI(bank)
            THEN mm_dd_yyyy_formats \o dd_mm_yyyy_formats
            ELSE dd_mm_yyyy_formats \o mm_dd_yyyy_formats
        parsed_dt == FirstParse(d, format_priority)
    IN  IF d.k = "digits" THEN _parse_unix_timestamp(d.e)
        ELSE IF parsed_dt.ok THEN parsed_dt ELSE FirstParse(d, yyyy_formats)

\* createGristRecords.normalize_date
normalize_date(d, bank) ==
    IF d.k \in {"none", "empty"} THEN Nothing
    ELSE IF d.k = "number"
    THEN (IF IsZero(d.e) THEN Nothing ELSE _parse_unix_timestamp(d.e))
    ELSE _parse_date_string(d, bank)

\* createGristRecords._format_datetime_for_output: strftime("%m/%d/%Y %H:%M:%S")
_format_datetime_for_output(dt) ==
    DateText("/", dt \div 1000, (dt % 1000) \div 10, dt % 10)

\* strftime('%Y-%m-%d %H:%M:%S') of uploadToGrist.prepare_grist_record
FormatIso(dt) == DateText("iso", dt \div 1000, (dt % 1000) \div 10, dt % 10)

\* strftime('%Y-%m-%d') of uploadToGrist.prepare_grist_record (Value_Date)
FormatIsoDate(dt) == DateText("iso", dt \div 1000, (dt % 1000) \div 10, -1)

\* The day-first patterns of uploadToGrist._parse_date_string: those of
\* createGristRecords and %d/%m/%y.
up_dd_mm_yyyy_formats == dd_mm_yyyy_formats \o << Fmt("dmy2", "/", FALSE) >>

\* uploadToGrist._parse_date_string
up_parse_date_string(d, bank) ==
    LET format_priority ==
            IF IsICICI(bank)
            THEN mm_dd_yyyy_formats \o up_dd_mm_yyyy_formats
            ELSE up_dd_mm_yyyy_formats \o mm_dd_yyyy_formats
        parsed_dt == FirstParse(d, format_priority)
    IN  IF d.k = "digits" THEN _parse_unix_timestamp(d.e)
        ELSE IF parsed_dt.ok THEN parsed_dt ELSE FirstParse(d, yyyy_formats)

\* uploadToGrist.normalize_date
up_normalize_date(d, bank) ==
    IF d.k \in {"none", "empty"} THEN Nothing
    ELSE IF d.k = "number"
    THEN (IF IsZero(d.e) THEN Nothing ELSE _parse_unix_timestamp(d.e))
    ELSE up_parse_date_string(d, bank)

\* The patterns without AM/PM of gristbankupdater._parse_date_string (lines
\* 229-240): no day-first pattern reads a/b/2025 without a time.
gbu_mm_dd_yyyy_formats ==
    << Fmt("md", "-", TRUE), Fmt("md", "-", FALSE),
       Fmt("md", "/", TRUE), Fmt("md", "/", FALSE) >>

gbu_dd_mm_yyyy_formats ==
    << Fmt("dm", "-", TRUE), Fmt("dm", "/", TRUE), Fmt("dm", "-", FALSE) >>

\* gristbankupdater._parse_date_string
gbu_parse_date_string(d, bank) ==
    LET specific_format == Fmt("dm", "/", TRUE)
        parsed_dt ==
            IF IsICICI(bank)
            THEN IF FirstParse(d, gbu_mm_dd_yyyy_formats).ok
                 THEN FirstParse(d, gbu_mm_dd_yyyy_formats)
                 ELSE FirstParse(d, gbu_dd_mm_yyyy_formats)
            ELSE IF Strptime(d, specific_format).ok
                 THEN Strptime(d, specific_format)
                 ELSE IF FirstParse(d, gbu_dd_mm_yyyy_formats).ok
                 THEN FirstParse(d, gbu_dd_mm_yyyy_formats)
                 ELSE FirstParse(d, gbu_mm_dd_yyyy_formats)
    IN  IF d.k = "digits" /\ InTimestampRange(d.e) THEN Just(FromTimestamp(d.e))
        ELSE IF parsed_dt.ok THEN parsed_dt ELSE FirstParse(d, yyyy_formats)

\* gristbankupdater.normalize_date: a value that is neither a datetime nor a text
\* leaves dt at None.
gbu_normalize_date(d, bank) ==
    IF d.k \in {"none", "empty"} THEN Nothing
    ELSE IF d.k = "number" THEN Nothing
    ELSE gbu_parse_date_string(d, bank)

(***************************************************************************)
(* Amount values: absent (None), a text (a sequence of characters) or a    *)
(* number.                                                                 *)
(***************************************************************************)
NoneAmount == [k |-> "none", s |-> <<>>, n |-> 0]
AmountText(s) == [k |-> "text", s |-> s, n |-> 0]
AmountNum(n) == [k |-> "num", s |-> <<>>, n |-> n]

Digits == {"0", "1", "5"}
DigitVal(c) == IF c = "0" THEN 0 ELSE IF c = "1" THEN 1 ELSE 5

\* str.replace(c, '') for every character of drop
RECURSIVE RemoveChars(_, _)
RemoveChars(s, drop) ==
    IF s = <<>> THEN <<>>
    ELSE IF Head(s) \in drop THEN RemoveChars(Tail(s), drop)
    ELSE <<Head(s)>> \o RemoveChars(Tail(s), drop)

\* str.strip()
RECURSIVE Strip(_)
Strip(s) ==
    IF s = <<>> THEN <<>>
    ELSE IF Head(s) = " " THEN Strip(Tail(s))
    ELSE IF s[Len(s)] = " " THEN Strip(SubSeq(s, 1, Len(s) - 1))
    ELSE s

RECURSIVE DigitsValue(_)
DigitsValue(s) ==
    IF s = <<>> THEN 0
    ELSE DigitsValue(SubSeq(s, 1, Len(s) - 1)) * 10 + DigitVal(s[Len(s)])

\* float(text): the value, or Nothing for ValueError
ParseFloat(s) ==
    LET body == IF s # <<>> /\ Head(s) = "-" THEN Tail(s) ELSE s
    IN  IF body # <<>> /\ \A i \in 1..Len(body) : body[i] \in Digits
        THEN Just(IF s[1] = "-" THEN 0 - DigitsValue(body) ELSE DigitsValue(body))
        ELSE Nothing

\* Mutant of normalize_amount: the commas are not removed.
normalize_amount_commas(v) ==
    IF v.k = "none" \/ (v.k = "text" /\ v.s = <<>>) \/ (v.k = "num" /\ v.n = 0)
    THEN Nothing
    ELSE IF v.k = "text"
    THEN LET amount_str == Strip(RemoveChars(v.s, {"$", "R"}))
         IN  IF amount_str = <<>> THEN Nothing ELSE ParseFloat(amount_str)
    ELSE Just(v.n)

\* createGristRecords.normalize_amount ("R" stands for the rupee sign)
normalize_amount(v) ==
    IF v.k = "none" \/ (v.k = "text" /\ v.s = <<>>) \/ (v.k = "num" /\ v.n = 0)
    THEN Nothing
    ELSE IF v.k = "text"
    THEN LET amount_str == Strip(RemoveChars(v.s, {"$", ",", "R"}))
         IN  IF amount_str = <<>> THEN Nothing ELSE ParseFloat(amount_str)
    ELSE Just(v.n)

\* uploadToGrist.normalize_amount
up_normalize_amount(v) ==
    IF v.k = "none" \/ (v.k = "text" /\ v.s = <<>>) \/ (v.k = "num" /\ v.n = 0)
    THEN Nothing
    ELSE IF v.k = "text"
    THEN LET amount_str == Strip(RemoveChars(v.s, {"$", ",", "R"}))
         IN  IF amount_str = <<>> THEN Nothing ELSE ParseFloat(amount_str)
    ELSE Just(v.n)

\* uploadToGrist.normalize_integer: int(text.strip()), or int(number)
normalize_integer(v) ==
    IF v.k = "none" \/ (v.k = "text" /\ v.s = <<>>) \/ (v.k = "num" /\ v.n = 0)
    THEN Nothing
    ELSE IF v.k = "text"
    THEN IF Strip(v.s) = <<>> THEN Nothing ELSE ParseFloat(Strip(v.s))
    ELSE Just(v.n)

(***************************************************************************)
(* Records.  A file record carries the keys 'Transaction Date',            *)
(* 'Transaction Description', 'Transaction Amount' and 'Bank'; a Grist     *)
(* record the fields Transaction_Date, Transaction_Description and         *)
(* Transaction_Amount.  NoneText is the value of dict.get for a key that   *)
(* is missing or null.                                                     *)
(***************************************************************************)
NoneText == "<None>"

FileRecord(date, desc, amount, bank) ==
    [date |-> date, desc |-> desc, amount |-> amount, bank |-> bank]

GristRecord(date, desc, amount) ==
    [Transaction_Date |-> date, Transaction_Description |-> desc,
     Transaction_Amount |-> amount]

\* createGristRecords._record_matches
_record_matches(file_record, grist_record) ==
    LET bank_name == file_record.bank
        file_date == normalize_date(file_record.date, bank_name)
        file_desc == file_record.desc
        file_amount == normalize_amount(file_record.amount)
        grist_date == normalize_date(grist_record.Transaction_Date, NoneText)
        grist_desc == grist_record.Transaction_Description
        grist_amount == normalize_amount(grist_record.Transaction_Amount)
    IN  IF ~file_date.ok \/ file_desc = NoneText \/ ~file_amount.ok
           \/ ~grist_date.ok \/ grist_desc = NoneText \/ ~grist_amount.ok
        THEN FALSE
        ELSE file_date = grist_date /\ file_desc = grist_desc
             /\ file_amount = grist_amount

\* Mutant of should_process_record: a record at the cursor timestamp is taken for
\* newer (>= for >) and included without the duplicate check.
should_process_record_ge(file_record, file_dt_obj, last_dt_obj, last_datetime_records) ==
    IF ~file_dt_obj.ok THEN FALSE
    ELSE IF ~last_dt_obj.ok THEN TRUE
    ELSE file_dt_obj.v >= last_dt_obj.v

\* createGristRecords.should_process_record; file_dt_obj and last_dt_obj are
\* Optional[datetime], last_datetime_records a sequence of Grist records.
should_process_record(file_record, file_dt_obj, last_dt_obj, last_datetime_records) ==
    IF ~file_dt_obj.ok THEN FALSE
    ELSE IF ~last_dt_obj.ok THEN TRUE
    ELSE IF file_dt_obj.v > last_dt_obj.v THEN TRUE
    ELSE IF file_dt_obj.v < last_dt_obj.v THEN FALSE
    ELSE ~\E i \in 1..Len(last_datetime_records) :
              _record_matches(file_record, last_datetime_records[i])


\* Mutant of CollectSameDatetime: the loop ends at the first record that does not
\* carry the latest datetime, also when that record has no readable date.
RECURSIVE CollectSameDatetime_break(_, _)
CollectSameDatetime_break(records, latest) ==
    IF records = <<>> THEN <<>>
    ELSE IF normalize_date(Head(records).Transaction_Date, NoneText) = Just(latest)
    THEN <<Head(records)>> \o CollectSameDatetime_break(Tail(records), latest)
    ELSE <<>>

\* The loop of lines 306-315: records of the latest datetime are collected, the
\* first record with an earlier datetime ends the loop, the others are passed over.
RECURSIVE CollectSameDatetime(_, _)
CollectSameDatetime(records, latest) ==
    IF records = <<>> THEN <<>>
    ELSE LET record_datetime_obj == normalize_date(Head(records).Transaction_Date, NoneText)
         IN  IF record_datetime_obj.ok /\ record_datetime_obj.v = latest
             THEN <<Head(records)>> \o CollectSameDatetime(Tail(records), latest)
             ELSE IF record_datetime_obj.ok /\ record_datetime_obj.v < latest
             THEN <<>>
             ELSE CollectSameDatetime(Tail(records), latest)

\* Mutant of get_last_processed_datetime_and_records: the latest record is taken
\* from the end of the response (an ascending sort assumed).
get_last_processed_datetime_and_records_last(status_ok, all_records) ==
    IF ~status_ok \/ all_records = <<>> THEN [dt |-> Nothing, records |-> <<>>]
    ELSE LET latest_datetime_obj ==
                 normalize_date(all_records[Len(all_records)].Transaction_Date, NoneText)
         IN  IF ~latest_datetime_obj.ok THEN [dt |-> Nothing, records |-> <<>>]
             ELSE [dt |-> latest_datetime_obj,
                   records |-> CollectSameDatetime(all_records, latest_datetime_obj.v)]

\* createGristRecords.get_last_processed_datetime_and_records: status_ok is
\* "the response has status 200", all_records the records of the response.
get_last_processed_datetime_and_records(status_ok, all_records) ==
    IF ~status_ok THEN [dt |-> Nothing, records |-> <<>>]
    ELSE IF all_records = <<>> THEN [dt |-> Nothing, records |-> <<>>]
    ELSE LET latest_date_raw == all_records[1].Transaction_Date
             latest_datetime_obj == normalize_date(latest_date_raw, NoneText)
         IN  IF latest_date_raw.k \in {"none", "empty"}
             THEN [dt |-> Nothing, records |-> <<>>]
             ELSE IF ~latest_datetime_obj.ok
             THEN [dt |-> Nothing, records |-> <<>>]
             ELSE [dt |-> latest_datetime_obj,
                   records |-> CollectSameDatetime(all_records, latest_datetime_obj.v)]

\* The raw-text loop of gristbankupdater lines 571-577: the leading records whose
\* Transaction_Date is the same value as that of the first record.
RECURSIVE CollectSameRaw(_, _)
CollectSameRaw(records, last_datetime_raw) ==
    IF records = <<>> THEN <<>>
    ELSE IF Head(records).Transaction_Date = last_datetime_raw
    THEN <<Head(records)>> \o CollectSameRaw(Tail(records), last_datetime_raw)
    ELSE <<>>

\* gristbankupdater.get_last_processed_datetime_and_records: the cursor is the raw
\* Transaction_Date of the first record (raw |-> ...), None when it is missing.
gbu_get_last_processed_datetime_and_records(status_ok, all_records) ==
    IF ~status_ok THEN [raw |-> NoneDate, records |-> <<>>]
    ELSE IF all_records = <<>> THEN [raw |-> NoneDate, records |-> <<>>]
    ELSE LET last_datetime_raw == all_records[1].Transaction_Date
         IN  IF last_datetime_raw.k \in {"none", "empty"}
             THEN [raw |-> NoneDate, records |-> <<>>]
             ELSE [raw |-> last_datetime_raw,
                   records |-> CollectSameRaw(all_records, last_datetime_raw)]

(***************************************************************************)
(* The remote table store.  GET records?sort=-Transaction_Date&limit=N     *)
(* answers with at most N records, those with a readable timestamp in      *)
(* descending order; where the store places a record whose                 *)
(* Transaction_Date is missing or unreadable is not fixed by the program.  *)
(***************************************************************************)
DateOf(grist_record) == normalize_date(grist_record.Transaction_Date, NoneText)

IsDescending(s) ==
    \A i \in 1..Len(s) : \A j \in 1..Len(s) :
        (i < j /\ DateOf(s[i]).ok /\ DateOf(s[j]).ok) => DateOf(s[i]).v >= DateOf(s[j]).v

Window(s, limit) == SubSeq(s, 1, IF Len(s) < limit THEN Len(s) ELSE limit)

RemoteQuery(table, limit) ==
    { Window(s, limit) :
        s \in { t \in { [i \in 1..Len(table) |-> table[p[i]]] :
                            p \in Permutations(1..Len(table)) } : IsDescending(t) } }


(***************************************************************************)
(* SpecFn: the pure functions applied to inputs drawn from bounded sets.   *)
(***************************************************************************)
FnFileDates ==
    { NoneDate, JunkDate, DateText("/", 2, 7, -1), DateText("/", 7, 2, -1),
      DateText("/", 13, 7, 0), DateText("iso", 7, 2, 1) }

FnGristDates ==
    { NoneDate, JunkDate, DateText("iso", 7, 2, 0), DateText("iso", 7, 2, 1),
      DateText("iso", 2, 7, 0), DateText("iso", 7, 13, 0) }

FnDescs == {NoneText, "", "X"}

FnFileAmounts ==
    { NoneAmount, AmountText(<<>>), AmountText(<<"0">>), AmountText(<<"5">>),
      AmountText(<<"-", "5">>), AmountText(<<"R", "1", ",", "0">>),
      AmountText(<<" ", "$">>), AmountText(<<"x">>), AmountNum(5) }

FnGristAmounts == { NoneAmount, AmountNum(0), AmountNum(5), AmountNum(0 - 5), AmountNum(10) }

FnBanks == {"ICICI", "HDFC", NoneText}

FnFileRecords ==
    { FileRecord(d, x, a, b) :
        d \in FnFileDates, x \in FnDescs, a \in FnFileAmounts, b \in FnBanks }

FnGristRecords ==
    { GristRecord(d, x, a) : d \in FnGristDates, x \in FnDescs, a \in FnGristAmounts }

\* The smaller pools of the cursor and classification inputs.
FnTableRecords ==
    { GristRecord(d, x, AmountNum(5)) : d \in FnGristDates \ {DateText("iso", 7, 13, 0)},
                                        x \in {"X", "Y"} }

FnClassifyRecords ==
    { FileRecord(d, x, a, b) :
        d \in FnFileDates, x \in {"X", "Y"},
        a \in {AmountText(<<"5">>), AmountText(<<"0">>)}, b \in {"ICICI", "HDFC"} }

SeqsUpTo(S, n) == UNION { [1..k -> S] : k \in 0..n }

\* The destination tables of the inputs, in an order the store may answer in.
FnTables == { t \in SeqsUpTo(FnTableRecords, MaxResponse) : IsDescending(t) }

\* The destination tables of the classification inputs: those of at most MaxTable
\* records.
FnClassifyTables == { t \in SeqsUpTo(FnTableRecords, MaxTable) : IsDescending(t) }

NoFn == [op |-> "none"]

\* The value of days outside SpecDays.
NoDays == [today |-> 0]

InitFn ==
    /\ sheet = <<>>
    /\ dataFile = Nothing
    /\ uploadDir = Nothing
    /\ archive = <<>>
    /\ grist = <<>>
    /\ pc = "idle"
    /\ run = [n |-> 0]
    /\ fn = NoFn
    /\ days = NoDays

FnUnchanged == UNCHANGED <<sheet, dataFile, uploadDir, archive, grist, pc, run, days>>

\* _record_matches applied to a file record and a Grist record.
ApplyRecordMatches ==
    /\ fn = NoFn
    /\ \E f \in FnFileRecords : \E g \in FnGristRecords :
          fn' = [op |-> "_record_matches", file_record |-> f, grist_record |-> g,
                 result |-> _record_matches(f, g)]
    /\ FnUnchanged

\* get_last_processed_datetime_and_records applied to the answer to the window
\* query of a destination table.
ApplyCursor ==
    /\ fn = NoFn
    /\ \E t \in FnTables : \E limit \in 1..MaxLimit : \E status_ok \in BOOLEAN :
          fn' = [op |-> "cursor", table |-> t, limit |-> limit,
                 status_ok |-> status_ok, all_records |-> Window(t, limit),
                 result |-> get_last_processed_datetime_and_records(
                                status_ok, Window(t, limit)),
                 gbu |-> gbu_get_last_processed_datetime_and_records(
                                status_ok, Window(t, limit))]
    /\ FnUnchanged

\* should_process_record applied as in create_grist_records_from_file (lines
\* 416-421): against the cursor resolved from a destination table.
ApplyClassify ==
    /\ fn = NoFn
    /\ \E t \in FnClassifyTables : \E f \in FnClassifyRecords :
          LET cursor == get_last_processed_datetime_and_records(TRUE, t)
              file_dt_obj == normalize_date(f.date, f.bank)
          IN  fn' = [op |-> "should_process_record", file_record |-> f,
                     file_dt_obj |-> file_dt_obj, last_dt_obj |-> cursor.dt,
                     last_datetime_records |-> cursor.records,
                     result |-> should_process_record(f, file_dt_obj, cursor.dt,
                                                      cursor.records)]
    /\ FnUnchanged



(***************************************************************************)
(* Properties of the pure functions (checked under SpecFn).                *)
(***************************************************************************)

\* C6: with a cursor timestamp T and tie set S, a source record whose normalized
\* date is later than T is included, one whose date is earlier is excluded, and one
\* whose date equals T is included iff it matches no record of S.
C6_Classification ==
    (fn.op = "should_process_record" /\ fn.file_dt_obj.ok /\ fn.last_dt_obj.ok) =>
        /\ fn.file_dt_obj.v > fn.last_dt_obj.v => fn.result = TRUE
        /\ fn.file_dt_obj.v < fn.last_dt_obj.v => fn.result = FALSE
        /\ fn.file_dt_obj.v = fn.last_dt_obj.v =>
              (fn.result <=> \A i \in 1..Len(fn.last_datetime_records) :
                                 ~_record_matches(fn.file_record,
                                                  fn.last_datetime_records[i]))

\* C6 witness: a record at the cursor timestamp that matches one of two tied
\* records has been classified as not new.
C6_WitnessTieDuplicate ==
    /\ fn.op = "should_process_record"
    /\ fn.file_dt_obj.ok /\ fn.last_dt_obj.ok
    /\ fn.file_dt_obj.v = fn.last_dt_obj.v
    /\ Len(fn.last_datetime_records) = 2
    /\ ~_record_matches(fn.file_record, fn.last_datetime_records[1])
    /\ _record_matches(fn.file_record, fn.last_datetime_records[2])
    /\ fn.result = FALSE

\* The amount a value denotes: absent for None and for a text that is blank once
\* the currency signs are removed, else the number written (zero included).
AmountDenoted(v) ==
    IF v.k = "none" THEN Nothing
    ELSE IF v.k = "num" THEN Just(v.n)
    ELSE ParseFloat(Strip(RemoveChars(v.s, {"$", ",", "R"})))

\* C7: _record_matches is true iff the normalized transaction date, the description
\* and the normalized amount are defined on both sides and pairwise equal, for
\* every amount value, zero and negative amounts included.
C7_MatchIffDefinedAndEqual ==
    fn.op = "_record_matches" =>
        LET f == fn.file_record
            g == fn.grist_record
            file_date == normalize_date(f.date, f.bank)
            grist_date == normalize_date(g.Transaction_Date, NoneText)
            file_amount == AmountDenoted(f.amount)
            grist_amount == AmountDenoted(g.Transaction_Amount)
        IN  fn.result <=>
                /\ file_date.ok /\ grist_date.ok /\ file_date = grist_date
                /\ f.desc # NoneText /\ g.Transaction_Description # NoneText
                /\ f.desc = g.Transaction_Description
                /\ file_amount.ok /\ grist_amount.ok /\ file_amount = grist_amount

\* C8: when the cursor is absent (the destination is empty, or the timestamp of its
\* most recent record is missing or does not normalize), every source record is
\* classified as new, whatever its content.
C8_FailOpenEveryRecord ==
    (fn.op = "should_process_record" /\ ~fn.last_dt_obj.ok) => fn.result = TRUE

\* The positions of a sequence of Grist records that carry the timestamp dt.
TiedPositions(records, dt) == { i \in 1..Len(records) : DateOf(records[i]) = dt }

\* The records of a sequence that carry the timestamp dt, in their order.
RECURSIVE TiedRecords(_, _)
TiedRecords(records, dt) ==
    IF records = <<>> THEN <<>>
    ELSE IF DateOf(Head(records)) = dt
    THEN <<Head(records)>> \o TiedRecords(Tail(records), dt)
    ELSE TiedRecords(Tail(records), dt)

MaxDate(records) ==
    LET readable == { i \in 1..Len(records) : DateOf(records[i]).ok }
    IN  CHOOSE m \in { DateOf(records[i]).v : i \in readable } :
            \A j \in readable : DateOf(records[j]).v <= m

SomeReadable(records) == \E i \in 1..Len(records) : DateOf(records[i]).ok

\* C10 as stated: whenever the window query returns a record whose
\* Transaction_Date normalizes, the cursor is the maximum normalized date among the
\* returned records and the tie set is exactly the returned records with that
\* timestamp; records with a missing or unparseable date do not change this.
C10_CursorIsMaximum ==
    (fn.op = "cursor" /\ fn.status_ok /\ SomeReadable(fn.all_records)) =>
        /\ fn.result.dt = Just(MaxDate(fn.all_records))
        /\ fn.result.records = TiedRecords(fn.all_records, Just(MaxDate(fn.all_records)))

\* C10 amended: when the first record the window query returned (the store answers
\* in descending order of timestamp) has a Transaction_Date that normalizes, the
\* cursor is the maximum normalized date among the returned records and the tie set
\* is exactly the returned records with that timestamp, whatever records without a
\* readable date follow; when the date of the first record is missing or
\* unparseable, the cursor is absent and the tie set is empty.
C10_CursorIsMaximumWhenFirstNormalizes ==
    (fn.op = "cursor" /\ fn.status_ok /\ fn.all_records # <<>>) =>
        IF DateOf(fn.all_records[1]).ok
        THEN /\ fn.result.dt = Just(MaxDate(fn.all_records))
             /\ fn.result.records =
                    TiedRecords(fn.all_records, Just(MaxDate(fn.all_records)))
        ELSE fn.result = [dt |-> Nothing, records |-> <<>>]

\* C10 witness: a response whose first record normalizes, with a record without a
\* readable date and a record of an earlier date after it, has been resolved.
C10_WitnessFirstNormalizes ==
    /\ fn.op = "cursor" /\ fn.status_ok
    /\ Len(fn.all_records) = 3
    /\ DateOf(fn.all_records[1]).ok
    /\ ~DateOf(fn.all_records[2]).ok
    /\ DateOf(fn.all_records[3]).ok
    /\ DateOf(fn.all_records[3]).v < DateOf(fn.all_records[1]).v
    /\ fn.result.dt = DateOf(fn.all_records[1])


(***************************************************************************)
(* Spec: the wrapper and the scripts it launches.                          *)
(***************************************************************************)

\* limit=500 of the cursor query (create_grist_records_from_file)
QueryLimit == 500

\* The destination schema (column id -> declared type) that
\* get_grist_table_structure returns.
GristStructure ==
    [Transaction_Date |-> "DateTime", Transaction_Description |-> "Text",
     Transaction_Amount |-> "Numeric"]

\* A row of the spreadsheet; src is its position in the sheet (history only).
SheetRow(r, i) ==
    [date |-> r.date, desc |-> r.desc, amount |-> r.amount, bank |-> r.bank, src |-> i]

RowPool ==
    { FileRecord(DateText("/", 2, 7, -1), "X", AmountText(<<"5">>), "HDFC"),
      FileRecord(DateText("/", 7, 2, -1), "X", AmountText(<<"5">>), "ICICI"),
      FileRecord(DateText("/", 13, 7, 0), "Y", AmountText(<<"0">>), "HDFC"),
      FileRecord(JunkDate, "Y", AmountText(<<"5">>), "HDFC"),
      FileRecord(DateText("/", 7, 13, -1), "Z", AmountText(<<>>), "ICICI") }

\* The sheets of the model: up to MaxRows different rows.
Sheets ==
    { [i \in 1..Len(q) |-> SheetRow(q[i], i)] :
        q \in { t \in SeqsUpTo(RowPool, MaxRows) :
                  \A i \in 1..Len(t) : \A j \in 1..Len(t) : i # j => t[i] # t[j] } }

\* Mutant of records_to_output: a record that passes is put in front of the list.
RECURSIVE records_to_output_front(_, _)
records_to_output_front(file_records, cursor) ==
    IF file_records = <<>> THEN <<>>
    ELSE LET file_record == Head(file_records)
             file_dt_obj == normalize_date(file_record.date, file_record.bank)
         IN  records_to_output_front(Tail(file_records), cursor)
             \o (IF should_process_record(file_record, file_dt_obj, cursor.dt, cursor.records)
                 THEN <<file_record>> ELSE <<>>)

\* The filter loop of create_grist_records_from_file (lines 414-421).
RECURSIVE records_to_output(_, _)
records_to_output(file_records, cursor) ==
    IF file_records = <<>> THEN <<>>
    ELSE LET file_record == Head(file_records)
             file_dt_obj == normalize_date(file_record.date, file_record.bank)
         IN  (IF should_process_record(file_record, file_dt_obj, cursor.dt, cursor.records)
              THEN <<file_record>> ELSE <<>>)
             \o records_to_output(Tail(file_records), cursor)

\* The row csv.DictWriter writes for a record (lines 442-453): the Transaction Date
\* in the MM/DD/YYYY HH:MM:SS form when it normalizes, None written as ''.
row_to_write(record) ==
    LET dt_obj == normalize_date(record.date, record.bank)
    IN  [date |-> IF dt_obj.ok THEN _format_datetime_for_output(dt_obj.v)
                  ELSE IF record.date.k = "none" THEN EmptyDate ELSE record.date,
         desc |-> IF record.desc = NoneText THEN "" ELSE record.desc,
         amount |-> IF record.amount.k = "none" THEN AmountText(<<>>) ELSE record.amount,
         bank |-> IF record.bank = NoneText THEN "" ELSE record.bank,
         src |-> record.src]

\* The value of a field of a source record: a date value, an amount value or a text.
FvDate(d) == [kind |-> "date", d |-> d, a |-> NoneAmount, x |-> ""]
FvAmount(a) == [kind |-> "amount", d |-> NoneDate, a |-> a, x |-> ""]
FvText(x) == [kind |-> "text", d |-> NoneDate, a |-> NoneAmount, x |-> x]

\* "field_value is None or field_value == ''"
IsNoneOrEmpty(v) ==
    IF v.kind = "date" THEN v.d.k \in {"none", "empty"}
    ELSE IF v.kind = "amount" THEN v.a.k = "none" \/ (v.a.k = "text" /\ v.a.s = <<>>)
    ELSE v.x \in {NoneText, ""}

\* "not field_value": None, '' and the number 0.
IsFalsy(v) == IsNoneOrEmpty(v) \/ (v.kind = "amount" /\ v.a.k = "num" /\ v.a.n = 0)

\* A field value as the date normalizer reads it: a text that is not a date is a
\* text no pattern accepts (amount values are not given to the date normalizer by
\* the schemas of the model).
AsDate(v) == IF v.kind = "date" THEN v.d ELSE JunkDate

\* A field value as the amount and integer normalizers read it: float() and int()
\* reject a date text and a description.
AsAmount(v) ==
    IF v.kind = "amount" THEN v.a
    ELSE IF IsNoneOrEmpty(v) THEN NoneAmount
    ELSE AmountText(<<"x">>)

\* normalized_value of prepare_grist_record: None, or the value with the
\* normalizer that produced it.
RNull == [k |-> "null", v |-> 0]
RVal(k, v) == [k |-> k, v |-> v]

\* google_to_grist_map of uploadToGrist.prepare_grist_record
up_google_to_grist_map ==
    ("Transaction Date" :> "Transaction_Date")
    @@ ("Transaction Description" :> "Transaction_Description")
    @@ ("Transaction Amount" :> "Transaction_Amount")
    @@ ("Reference No." :> "Reference_No")
    @@ ("Value Date" :> "Value_Date")
    @@ ("GSheets_RowNum" :> "GSheets_RowNum")

\* google_to_grist_map of gristbankupdater.prepare_grist_record
gbu_google_to_grist_map ==
    ("Transaction Date" :> "Transaction_Date")
    @@ ("Transaction Description" :> "Transaction_Description")
    @@ ("Transaction Amount" :> "Transaction_Amount")
    @@ ("Reference No." :> "Reference_No")
    @@ ("Value Date" :> "Value_Date")

\* The column a source field resolves to: by the map, else by a column whose id
\* (and label) is the field name; NoneText when there is none.
grist_field(field_name, map, grist_structure) ==
    IF field_name \in DOMAIN map THEN map[field_name]
    ELSE IF field_name \in DOMAIN grist_structure THEN field_name
    ELSE NoneText

\* Mutant of up_normalized_value: the declared type alone selects the normalizer.
up_normalized_value_by_type(field_name, field_value, column, grist_type, bank_name) ==
    IF grist_type = "Date"
    THEN LET dt_obj == up_normalize_date(AsDate(field_value), bank_name)
         IN  IF dt_obj.ok THEN RVal("date", FormatIso(dt_obj.v)) ELSE RNull
    ELSE IF grist_type = "Numeric"
    THEN LET n == up_normalize_amount(AsAmount(field_value))
         IN  IF n.ok THEN RVal("num", n.v) ELSE RNull
    ELSE IF grist_type = "Int"
    THEN LET n == normalize_integer(AsAmount(field_value))
         IN  IF n.ok THEN RVal("int", n.v) ELSE RNull
    ELSE IF IsFalsy(field_value) THEN RNull ELSE RVal("raw", field_value)

\* The choice of the normalizer in uploadToGrist.prepare_grist_record (lines 280-298).
up_normalized_value(field_name, field_value, column, grist_type, bank_name) ==
    IF grist_type = "Date" \/ field_name \in {"Transaction Date", "Value Date"}
    THEN LET dt_obj == up_normalize_date(AsDate(field_value), bank_name)
         IN  IF dt_obj.ok
             THEN RVal("date", IF column = "Value_Date" THEN FormatIsoDate(dt_obj.v)
                               ELSE FormatIso(dt_obj.v))
             ELSE RNull
    ELSE IF grist_type = "Numeric"
    THEN LET n == up_normalize_amount(AsAmount(field_value))
         IN  IF n.ok THEN RVal("num", n.v) ELSE RNull
    ELSE IF grist_type = "Int" \/ field_name = "GSheets_RowNum"
    THEN LET n == normalize_integer(AsAmount(field_value))
         IN  IF n.ok THEN RVal("int", n.v) ELSE RNull
    ELSE IF IsFalsy(field_value) THEN RNull ELSE RVal("raw", field_value)

\* The choice of the normalizer in gristbankupdater.prepare_grist_record (lines
\* 420-436); a date is kept as the datetime object.
gbu_normalized_value(field_name, field_value, column, grist_type, bank_name) ==
    IF grist_type = "Date"
    THEN LET dt_obj == gbu_normalize_date(AsDate(field_value), bank_name)
         IN  IF dt_obj.ok THEN RVal("datetime", dt_obj.v) ELSE RNull
    ELSE IF grist_type = "Numeric"
    THEN LET n == normalize_amount(AsAmount(field_value))
         IN  IF n.ok THEN RVal("num", n.v) ELSE RNull
    ELSE IF field_name \in {"Transaction Date", "Value Date"}
    THEN LET dt_obj == gbu_normalize_date(AsDate(field_value), bank_name)
         IN  IF dt_obj.ok THEN RVal("datetime", dt_obj.v) ELSE RNull
    ELSE IF IsFalsy(field_value) THEN RNull ELSE RVal("raw", field_value)

\* sheet_record.get('Bank')
BankOf(sheet_record) ==
    IF "Bank" \in DOMAIN sheet_record THEN sheet_record["Bank"].x ELSE NoneText

\* The source fields the loop of prepare_grist_record does not pass over: not
\* empty, and resolved to a column of the structure.
UsableFields(sheet_record, map, grist_structure) ==
    { f \in DOMAIN sheet_record :
        /\ ~IsNoneOrEmpty(sheet_record[f])
        /\ grist_field(f, map, grist_structure) \in DOMAIN grist_structure }

\* Mutant of normalized_record: a value that failed to normalize is stored as None.
normalized_record_nulls(sheet_record, grist_structure) ==
    LET usable == UsableFields(sheet_record, up_google_to_grist_map, grist_structure)
        column(f) == grist_field(f, up_google_to_grist_map, grist_structure)
        value(f) == up_normalized_value(f, sheet_record[f], column(f),
                                        grist_structure[column(f)], BankOf(sheet_record))
    IN  [c \in { column(f) : f \in usable } |->
            value(CHOOSE f \in usable : column(f) = c)]

\* uploadToGrist.prepare_grist_record: the dict it returns, column id -> value.
normalized_record(sheet_record, grist_structure) ==
    LET usable == UsableFields(sheet_record, up_google_to_grist_map, grist_structure)
        column(f) == grist_field(f, up_google_to_grist_map, grist_structure)
        value(f) == up_normalized_value(f, sheet_record[f], column(f),
                                        grist_structure[column(f)], BankOf(sheet_record))
        kept == { f \in usable : value(f).k # "null" }
    IN  [c \in { column(f) : f \in kept } |->
            value(CHOOSE f \in kept : column(f) = c)]

\* gristbankupdater.prepare_grist_record: the dict it returns.
gbu_normalized_record(sheet_record, grist_structure) ==
    LET usable == UsableFields(sheet_record, gbu_google_to_grist_map, grist_structure)
        column(f) == grist_field(f, gbu_google_to_grist_map, grist_structure)
        value(f) == gbu_normalized_value(f, sheet_record[f], column(f),
                                         grist_structure[column(f)], BankOf(sheet_record))
        kept == { f \in usable : value(f).k # "null" }
    IN  [c \in { column(f) : f \in kept } |->
            value(CHOOSE f \in kept : column(f) = c)]

\* uploadToGrist.prepare_grist_record for the rows of the CSV (the fields
\* 'Transaction Date', 'Transaction Description', 'Transaction Amount' and 'Bank')
\* and the structure GristStructure: normalized_record written out for these
\* fields; NoneDate, NoneText and NoneAmount stand for a column the dict does not
\* hold.  The date parser of uploadToGrist adds the pattern %d/%m/%y, which no text
\* with a four-digit year matches, so normalize_date is the same function here.
prepare_grist_record(sheet_record, grist_structure) ==
    LET dt_obj == normalize_date(sheet_record.date, sheet_record.bank)
    IN  [Transaction_Date |->
             IF sheet_record.date.k \in {"none", "empty"} \/ ~dt_obj.ok THEN NoneDate
             ELSE FormatIso(dt_obj.v),
         Transaction_Description |->
             IF sheet_record.desc \in {NoneText, ""} THEN NoneText ELSE sheet_record.desc,
         Transaction_Amount |->
             IF sheet_record.amount.k = "none"
                \/ (sheet_record.amount.k = "text" /\ sheet_record.amount.s = <<>>)
             THEN NoneAmount
             ELSE IF grist_structure.Transaction_Amount = "Numeric"
             THEN (IF normalize_amount(sheet_record.amount).ok
                   THEN AmountNum(normalize_amount(sheet_record.amount).v)
                   ELSE NoneAmount)
             ELSE sheet_record.amount,
         src |-> sheet_record.src]

\* "if prepared_record:" -- the prepared record holds at least one field.
HasFields(prepared) ==
    \/ prepared.Transaction_Date.k # "none"
    \/ prepared.Transaction_Description # NoneText
    \/ prepared.Transaction_Amount.k # "none"

\* The loop of upload_records_to_grist (lines 417-431).
RECURSIVE grist_formatted_records(_, _)
grist_formatted_records(records, grist_structure) ==
    IF records = <<>> THEN <<>>
    ELSE (IF HasFields(prepare_grist_record(Head(records), grist_structure))
          THEN <<prepare_grist_record(Head(records), grist_structure)>> ELSE <<>>)
         \o grist_formatted_records(Tail(records), grist_structure)

\* The patterns of BankSync.normalize_date (line 262).
bs_formats ==
    << Fmt("ymd", "iso", FALSE), Fmt("dm", "/", FALSE),
       Fmt("md", "/", FALSE), Fmt("dm", "-", FALSE) >>

\* BankSync.normalize_date: the date as YYYY-MM-DD, or the text itself when no
\* pattern parses.
bs_normalize_date(d) ==
    IF FirstParse(d, bs_formats).ok
    THEN DateText("iso", FirstParse(d, bs_formats).v \div 1000,
                  (FirstParse(d, bs_formats).v % 1000) \div 10, -1)
    ELSE d

\* BankSync.prepare_grist_record
bs_prepare_grist_record(sheet_record, grist_structure) ==
    [Transaction_Date |->
         IF sheet_record.date.k \in {"none", "empty"} THEN NoneDate
         ELSE IF grist_structure.Transaction_Date = "Date"
         THEN bs_normalize_date(sheet_record.date)
         ELSE sheet_record.date,
     Transaction_Description |->
         IF sheet_record.desc \in {NoneText, ""} THEN NoneText ELSE sheet_record.desc,
     Transaction_Amount |->
         IF sheet_record.amount.k = "none"
            \/ (sheet_record.amount.k = "text" /\ sheet_record.amount.s = <<>>)
         THEN NoneAmount
         ELSE IF grist_structure.Transaction_Amount = "Numeric"
         THEN (IF normalize_amount(sheet_record.amount).ok
               THEN AmountNum(normalize_amount(sheet_record.amount).v)
               ELSE NoneAmount)
         ELSE sheet_record.amount,
     src |-> sheet_record.src]

\* The loop of BankSync.sync_transactions (lines 470-501): each prepared record is
\* posted on its own; created is the set of positions whose post succeeded.
RECURSIVE bs_created_records(_, _, _, _)
bs_created_records(sheet_data, i, created, grist_structure) ==
    IF i > Len(sheet_data) THEN <<>>
    ELSE (IF HasFields(bs_prepare_grist_record(sheet_data[i], grist_structure))
             /\ i \in created
          THEN <<bs_prepare_grist_record(sheet_data[i], grist_structure)>> ELSE <<>>)
         \o bs_created_records(sheet_data, i + 1, created, grist_structure)

\* The history of the wrapper's runs: n counts the runs started, exit is the status
\* of the current run, prevExit and prevInserted describe the run before it,
\* inserted counts the records this run put into the destination, fetched tells
\* that it read the sheet, bulkOk that its bulk insert succeeded, filtered is the
\* size of its filtered set (-1 before the filter), leftStaged tells that some
\* earlier run ended with its CSV still in UPLOAD_DIR, csvAtStart that a CSV was
\* there when this run started, bulkCalls counts the insert requests uploadToGrist
\* sent in this run and bulkSize the records of the last one, emptyFile tells that
\* the data file of the run held no records, cursorFailed that the cursor query of
\* the run did not answer with status 200, writeFailed that writing the CSV of the
\* run raised an exception, staged holds the rows of the sheet (by position) that
\* the filter of the run classified as new.
NewRun(prev, csvAtStart) ==
    [n |-> prev.n + 1, exit |-> "running", prevExit |-> prev.exit,
     prevInserted |-> prev.inserted, inserted |-> 0,
     fetched |-> FALSE, bulkOk |-> FALSE, filtered |-> -1,
     leftStaged |-> prev.leftStaged, csvAtStart |-> csvAtStart,
     bulkCalls |-> 0, bulkSize |-> 0, emptyFile |-> FALSE, cursorFailed |-> FALSE,
     writeFailed |-> FALSE, staged |-> {}]

\* Mutant of create_grist_records_bulk: one request per record.
create_grist_records_bulk_each(records_data) ==
    [i \in 1..Len(records_data) |-> <<records_data[i]>>]

\* uploadToGrist.create_grist_records_bulk: the payloads of the POST requests it
\* sends to the records endpoint (none for an empty list, else one with all records).
create_grist_records_bulk(records_data) ==
    IF records_data = <<>> THEN <<>> ELSE <<records_data>>

\* The records of a sequence of payloads, in order.
RECURSIVE Flatten(_)
Flatten(payloads) ==
    IF payloads = <<>> THEN <<>> ELSE Head(payloads) \o Flatten(Tail(payloads))

\* createGristRecords.archive_file: the archive directory after the move.
archive_file(files, file_name) == Append(files, file_name)

Init ==
    /\ sheet \in Sheets
    /\ dataFile = Nothing
    /\ uploadDir = Nothing
    /\ archive = <<>>
    /\ grist = <<>>
    /\ pc = "idle"
    /\ run = [n |-> 0, exit |-> "none", prevExit |-> "none", prevInserted |-> 0,
              inserted |-> 0, fetched |-> FALSE, bulkOk |-> FALSE, filtered |-> -1,
              leftStaged |-> FALSE, csvAtStart |-> FALSE,
              bulkCalls |-> 0, bulkSize |-> 0, emptyFile |-> FALSE,
              cursorFailed |-> FALSE, writeFailed |-> FALSE, staged |-> {}]
    /\ fn = NoFn
    /\ days = NoDays

\* The wrapper process ends with the given exit status.
EndRun(r, exit, upload) ==
    [r EXCEPT !.exit = exit, !.leftStaged = @ \/ upload.ok]

\* Today's data file appears in DATA_DIR (the wrapper tests for it at line 70 and
\* again at line 82; no script under src/ writes it).  It holds the rows of the
\* sheet, or no record at all.
PlaceDataFile ==
    /\ ~dataFile.ok
    /\ \E rows \in {sheet, <<>>} : dataFile' = Just(rows)
    /\ UNCHANGED <<sheet, uploadDir, archive, grist, pc, run, fn, days>>

\* run_bank_sync.main up to the choice of the first script (lines 64-77).
MainStart ==
    /\ pc = "idle"
    /\ run.n < MaxRuns
    /\ pc' = IF dataFile.ok THEN "create" ELSE "banksync"
    /\ run' = NewRun(run, uploadDir.ok)
    /\ UNCHANGED <<sheet, dataFile, uploadDir, archive, grist, fn, days>>

\* BankSync.py (main and sync_transactions), then lines 81-84 of the wrapper.  The
\* last transaction date is read from the field 'Transaction Date', which no
\* record of the destination carries, so get_sheet_data filters nothing.
RunBankSync ==
    /\ pc = "banksync"
    /\ \E conn_ok \in BOOLEAN : \E created \in SUBSET (1..Len(sheet)) :
          LET posted == IF conn_ok
                        THEN bs_created_records(sheet, 1, created, GristStructure)
                        ELSE <<>>
              fetchedRun == [run EXCEPT !.fetched = TRUE,
                                        !.inserted = @ + Len(posted)]
          IN  /\ ~conn_ok => created = {}
              /\ Len(grist) + Len(posted) <= MaxGrist
              /\ grist' = grist \o posted
              /\ IF conn_ok /\ dataFile.ok
                 THEN pc' = "create" /\ run' = fetchedRun
                 ELSE pc' = "idle" /\ run' = EndRun(fetchedRun, "fail", uploadDir)
    /\ UNCHANGED <<sheet, dataFile, uploadDir, archive, fn, days>>

\* createGristRecords.py: main and create_grist_records_from_file.
RunCreateGristRecords ==
    /\ pc = "create"
    /\ \E status_ok \in BOOLEAN : \E all_records \in RemoteQuery(grist, QueryLimit) :
       \E write_ok \in BOOLEAN :
          LET cursor == get_last_processed_datetime_and_records(status_ok, all_records)
              out == records_to_output(dataFile.v, cursor)
          IN  IF ~dataFile.ok
              THEN UNCHANGED <<dataFile, uploadDir, archive, run>>
              ELSE /\ uploadDir' =
                        IF out # <<>> /\ write_ok
                        THEN Just([i \in 1..Len(out) |-> row_to_write(out[i])])
                        ELSE uploadDir
                   /\ dataFile' = Nothing
                   /\ archive' = archive_file(archive, "txt")
                   /\ run' = [run EXCEPT !.filtered = Len(out),
                                         !.emptyFile = (dataFile.v = <<>>),
                                         !.cursorFailed = ~status_ok,
                                         !.writeFailed = (out # <<>> /\ ~write_ok),
                                         !.staged = { out[i].src : i \in 1..Len(out) }]
    /\ pc' = "upload"
    /\ UNCHANGED <<sheet, grist, fn, days>>

\* uploadToGrist.py: main up to the answer to the bulk insert (lines 469-493).
RunUploadToGrist ==
    /\ pc = "upload"
    /\ \E conn_ok \in BOOLEAN : \E structure_ok \in BOOLEAN : \E bulk_ok \in BOOLEAN :
          LET prepared == grist_formatted_records(uploadDir.v, GristStructure)
              payloads == create_grist_records_bulk(prepared)
              sent == [run EXCEPT !.bulkCalls = @ + Len(payloads),
                                  !.bulkSize = Len(payloads[Len(payloads)])]
          IN  IF ~uploadDir.ok
              THEN /\ pc' = "idle"
                   /\ run' = EndRun(run, "ok", uploadDir)
                   /\ UNCHANGED grist
              ELSE IF conn_ok /\ structure_ok /\ prepared # <<>> /\ bulk_ok
              THEN /\ Len(grist) + Len(prepared) <= MaxGrist
                   /\ grist' = grist \o Flatten(payloads)
                   /\ pc' = "archive_csv"
                   /\ run' = [sent EXCEPT !.bulkOk = TRUE,
                                          !.inserted = @ + Len(prepared)]
              ELSE IF conn_ok /\ structure_ok /\ prepared # <<>>
              THEN /\ pc' = "idle"
                   /\ run' = EndRun(sent, "fail", uploadDir)
                   /\ UNCHANGED grist
              ELSE /\ pc' = "idle"
                   /\ run' = EndRun(run, "fail", uploadDir)
                   /\ UNCHANGED grist
    /\ UNCHANGED <<sheet, dataFile, uploadDir, archive, fn, days>>

\* uploadToGrist.py: archive_csv_file and the end of main (lines 495-511).
ArchiveCsv ==
    /\ pc = "archive_csv"
    /\ \E rename_ok \in BOOLEAN :
          IF rename_ok
          THEN /\ uploadDir' = Nothing
               /\ archive' = Append(archive, "csv")
               /\ run' = EndRun(run, "ok", Nothing)
          ELSE /\ UNCHANGED <<uploadDir, archive>>
               /\ run' = EndRun(run, "fail", uploadDir)
    /\ pc' = "idle"
    /\ UNCHANGED <<sheet, dataFile, grist, fn, days>>

\* The process is stopped (killed) while a script runs.
Kill ==
    /\ pc # "idle"
    /\ pc' = "idle"
    /\ run' = EndRun(run, "killed", uploadDir)
    /\ UNCHANGED <<sheet, dataFile, uploadDir, archive, grist, fn, days>>

Next ==
    \/ PlaceDataFile
    \/ MainStart
    \/ RunBankSync
    \/ RunCreateGristRecords
    \/ RunUploadToGrist
    \/ ArchiveCsv
    \/ Kill

Spec == Init /\ [][Next]_vars

(***************************************************************************)
(* SpecFn, continued: the normalizers and the filter loop.                 *)
(***************************************************************************)

\* The date values of the inputs: None, '', a text no pattern reads, and every
\* text a<sep>b<sep>year [time] over DayMonthVals and TimeVals.
FnDateValues ==
    { NoneDate, EmptyDate, JunkDate }
    \cup { DateText(sep, a, b, t) :
             sep \in {"/", "-", "iso"}, a \in DayMonthVals, b \in DayMonthVals,
             t \in TimeVals }

\* normalize_date of the three scripts applied to a date value under a bank hint;
\* reparsed is the result of createGristRecords written with
\* _format_datetime_for_output and normalized again under the same hint.
ApplyNormalizeDate ==
    /\ fn = NoFn
    /\ \E d \in FnDateValues : \E bank \in FnBanks \cup {"icici"} :
          LET dt == normalize_date(d, bank)
          IN  fn' = [op |-> "normalize_date", date_value |-> d, bank_name |-> bank,
                     result |-> dt,
                     up |-> up_normalize_date(d, bank),
                     gbu |-> gbu_normalize_date(d, bank),
                     reparsed |-> IF dt.ok
                                  THEN normalize_date(_format_datetime_for_output(dt.v), bank)
                                  ELSE Nothing]
    /\ FnUnchanged

\* The characters of the amount texts of the inputs.
FnAmountChars == {"0", "5", "-", "$", ",", "R", " ", "x"}

FnAmountValues ==
    { NoneAmount, AmountNum(0), AmountNum(5), AmountNum(0 - 5) }
    \cup { AmountText(t) : t \in SeqsUpTo(FnAmountChars, MaxAmountLen) }

\* normalize_amount of createGristRecords and of uploadToGrist applied to a value.
ApplyNormalizeAmount ==
    /\ fn = NoFn
    /\ \E v \in FnAmountValues :
          fn' = [op |-> "normalize_amount", amount_value |-> v,
                 result |-> normalize_amount(v), up |-> up_normalize_amount(v)]
    /\ FnUnchanged

\* The data files and the destination tables of the filter inputs.
FnFiles == SeqsUpTo(RowPool, MaxFileLen)

FnFilterTables == SeqsUpTo(FnTableRecords, 1)

\* The filter loop of create_grist_records_from_file applied to the records of a
\* data file, against the cursor resolved from a destination table; rows are the
\* rows the writer loop (lines 442-453) writes to the CSV, src being the position
\* of the record in the data file.
ApplyFilter ==
    /\ fn = NoFn
    /\ \E file_records \in FnFiles : \E t \in FnFilterTables :
       \E status_ok \in BOOLEAN :
          LET cursor == get_last_processed_datetime_and_records(status_ok, t)
              numbered == [i \in 1..Len(file_records) |-> SheetRow(file_records[i], i)]
              out == records_to_output(numbered, cursor)
          IN  fn' = [op |-> "filter", file_records |-> file_records,
                     last_grist_dt_obj |-> cursor.dt,
                     last_grist_records |-> cursor.records,
                     result |-> records_to_output(file_records, cursor),
                     rows |-> [i \in 1..Len(out) |-> row_to_write(out[i])]]
    /\ FnUnchanged

\* The source records of the prepare inputs.
FnSheetRecords ==
    { ("Transaction Date" :> FvDate(td)) @@ ("Value Date" :> FvDate(vd))
      @@ ("Transaction Description" :> FvText(x)) @@ ("Transaction Amount" :> FvAmount(am))
      @@ ("GSheets_RowNum" :> FvAmount(rn)) @@ ("Bank" :> FvText(b)) :
        td \in {DateText("/", 7, 2, -1), JunkDate, EmptyDate},
        vd \in {DateText("/", 7, 2, -1), NoneDate},
        x \in {"X", ""},
        am \in {AmountText(<<"5">>), AmountText(<<"x">>), AmountNum(0)},
        rn \in {AmountText(<<"5">>), AmountText(<<"x">>)},
        b \in {"ICICI", "HDFC"} }

\* A structure from the declared types of the columns; "missing": no such column.
StructureOf(types) == [c \in { c \in DOMAIN types : types[c] # "missing" } |-> types[c]]

\* The destination schemas of the prepare inputs.
FnStructures ==
    { StructureOf(types) :
        types \in [Transaction_Date : {"Date", "DateTime", "Text", "missing"},
                   Value_Date : {"Date", "Text"},
                   Transaction_Description : {"Text", "Numeric"},
                   Transaction_Amount : {"Numeric", "Int", "Text"},
                   GSheets_RowNum : {"Int", "Text", "missing"}] }

\* prepare_grist_record of uploadToGrist and of gristbankupdater applied to a
\* source record and a destination schema.
ApplyPrepare ==
    /\ fn = NoFn
    /\ \E r \in FnSheetRecords : \E st \in FnStructures :
          fn' = [op |-> "prepare_grist_record", sheet_record |-> r,
                 grist_structure |-> st,
                 result |-> normalized_record(r, st),
                 gbu |-> gbu_normalized_record(r, st)]
    /\ FnUnchanged

\* The connection parameters every constructor requires (required_vars).
RequiredVars == {"GRIST_API_KEY", "GRIST_DOC_ID", "GRIST_TABLE_NAME"}

\* missing_vars of the constructors; env is the set of the variables that are set
\* to a non-empty value.
missing_vars(env) == RequiredVars \ env

\* The scripts whose main builds an object from the environment.
EntryPoints == {"createGristRecords", "uploadToGrist", "gristbankupdater"}

\* An operation on a directory of the file system, as main performs it.
FileOp(op, dir) == [op |-> op, dir |-> dir]

\* The outcome of a main up to the return of its constructor: exit is the status
\* main returns there (Nothing: the constructor returned and main goes on), io the
\* operations on the data, upload and archive directories performed so far.
Outcome(exit, io) == [exit |-> exit, io |-> io]

\* createGristRecords.main and gristbankupdater.main: the constructor is the first
\* statement; it raises ValueError before os.makedirs when a variable is missing,
\* and main answers the exception with 1.
init_then_run(env, dirs) ==
    IF missing_vars(env) # {}
    THEN Outcome(Just(1), <<>>)
    ELSE Outcome(Nothing, [i \in 1..Len(dirs) |-> FileOp("makedirs", dirs[i])])

\* uploadToGrist.main: os.listdir of the upload directory, "return 0" when it holds
\* no CSV, os.path.getmtime of every CSV for the sort, and only then the
\* constructor.
uploadToGrist_main(env, csv_files) ==
    LET listed == <<FileOp("listdir", "UPLOAD_GRIST_DIR")>>
        sorted == listed \o [i \in 1..csv_files |-> FileOp("getmtime", "UPLOAD_GRIST_DIR")]
    IN  IF csv_files = 0 THEN Outcome(Just(0), listed)
        ELSE IF missing_vars(env) # {} THEN Outcome(Just(1), sorted)
        ELSE Outcome(Nothing, sorted \o <<FileOp("makedirs", "ARCHIVE_DIR")>>)

\* main of an entry point, up to the return of its constructor.
main_to_init(entry, env, csv_files) ==
    IF entry = "uploadToGrist" THEN uploadToGrist_main(env, csv_files)
    ELSE IF entry = "createGristRecords"
    THEN init_then_run(env, <<"DATA_DIR", "UPLOAD_GRIST_DIR", "ARCHIVE_DIR">>)
    ELSE init_then_run(env, <<"DATA_DIR", "ARCHIVE_DIR">>)

\* The main of an entry point started under an environment, the upload directory
\* holding csv_files CSV files.
ApplyMain ==
    /\ fn = NoFn
    /\ \E entry \in EntryPoints : \E env \in SUBSET RequiredVars :
       \E csv_files \in 0..MaxCsvFiles :
          fn' = [op |-> "main", entry |-> entry, env |-> env, csv_files |-> csv_files,
                 result |-> main_to_init(entry, env, csv_files)]
    /\ FnUnchanged
\* The name of a file of the archive directory: prefix, base name, the timestamp
\* %Y%m%d_%H%M%S of the name (-1: none) and extension.  A timestamp is the second
\* of the clock it was taken at.
ArchiveName(prefix, base, ts, ext) ==
    [prefix |-> prefix, base |-> base, ts |-> ts, ext |-> ext]

\* The archive directory: a function from the names it holds to the files (a file
\* is known by the number of the operation that moved it there).
EmptyDir == [name \in {} |-> 0]

\* archive_path of createGristRecords.archive_file (lines 376-382): the base name,
\* or the base name with the timestamp when the archive holds the base name.
archive_path(dir, base, now) ==
    IF ArchiveName("", base, -1, "txt") \in DOMAIN dir
    THEN ArchiveName("", base, now, "txt")
    ELSE ArchiveName("", base, -1, "txt")

\* destination_path of uploadToGrist.archive_csv_file (lines 451-459):
\* Uploaded-<name>_<timestamp>.csv, whatever the archive holds.
destination_path(base, now) == ArchiveName("Uploaded-", base, now, "csv")

\* os.rename(src, dst) into the archive directory.  An existing dst is replaced
\* silently on POSIX; on Windows FileExistsError is raised, which both callers
\* catch and log, the file staying where it was.
os_rename(dir, dst, file, os_name) ==
    IF dst \in DOMAIN dir /\ os_name = "nt"
    THEN [ok |-> FALSE, dir |-> dir]
    ELSE [ok |-> TRUE, dir |-> (dst :> file) @@ dir]

\* An archive operation: archive_file ("txt") or archive_csv_file ("csv") of a file
\* with a base name, tick seconds after the operation before it.
ArchiveOps ==
    [kind : {"txt", "csv"}, base : {"010725", "020725"}, tick : {0, 1}]

\* The archive directory after the operations ops[i..], and the files they moved
\* with the names they were moved to.
RECURSIVE archive_all(_, _, _, _, _, _)
archive_all(ops, i, now, dir, moved, os_name) ==
    IF i > Len(ops) THEN [dir |-> dir, moved |-> moved]
    ELSE LET t == now + ops[i].tick
             dst == IF ops[i].kind = "txt"
                    THEN archive_path(dir, ops[i].base, t)
                    ELSE destination_path(ops[i].base, t)
             renamed == os_rename(dir, dst, i, os_name)
         IN  archive_all(ops, i + 1, t, renamed.dir,
                         IF renamed.ok THEN moved \cup {[file |-> i, name |-> dst]}
                         ELSE moved,
                         os_name)

\* A sequence of archive operations applied to an empty archive directory.
ApplyArchive ==
    /\ fn = NoFn
    /\ \E ops \in SeqsUpTo(ArchiveOps, MaxArchiveOps) : \E os_name \in {"posix", "nt"} :
          fn' = [op |-> "archive", ops |-> ops, os_name |-> os_name,
                 result |-> archive_all(ops, 1, 0, EmptyDir, {}, os_name)]
    /\ FnUnchanged
\* A record that carries the row-sequence field ('GSheets_RowNum' in a source
\* record, GSheets_RowNum in the destination) with the value n.
WithRowNum(record, n) == [GSheets_RowNum |-> n] @@ record

\* The destination tables of the row-sequence inputs: at most one record.
FnRowTables ==
    { <<>> } \cup { <<WithRowNum(g, n)>> : g \in FnTableRecords, n \in 1..MaxRowNum }

\* should_process_record applied as in create_grist_records_from_file to a source
\* record that carries a row number, against the cursor resolved from a destination
\* whose records carry row numbers.  Neither function reads the field.
ApplyClassifyRow ==
    /\ fn = NoFn
    /\ \E r \in RowPool : \E n \in 1..MaxRowNum : \E t \in FnRowTables :
          LET f == WithRowNum(r, n)
              cursor == get_last_processed_datetime_and_records(TRUE, t)
              file_dt_obj == normalize_date(f.date, f.bank)
          IN  fn' = [op |-> "should_process_record_row", file_record |-> f, table |-> t,
                     result |-> should_process_record(f, file_dt_obj, cursor.dt,
                                                      cursor.records)]
    /\ FnUnchanged
\* A row of a CSV whose fields are all empty.
EmptyRow ==
    [date |-> EmptyDate, desc |-> "", amount |-> AmountText(<<>>), bank |-> "", src |-> 0]

\* The rows of the CSVs of the upload inputs: the rows written for the records of
\* RowPool, and the empty row.
FnCsvRows == { EmptyRow } \cup { row_to_write(SheetRow(r, 1)) : r \in RowPool }

\* What a run of uploadToGrist.main leaves behind: its exit status, the place of
\* the CSV ("upload": untouched in the upload directory, "archive": moved), the
\* number of insert requests it sent and the records the destination accepted.
Uploaded(exit, csv, bulk_calls, posted) ==
    [exit |-> exit, csv |-> csv, bulk_calls |-> bulk_calls, posted |-> posted]

\* Mutant of upload_csv: the CSV is archived after a failed upload as well.
upload_csv_always_archives(records, conn_ok, read_ok, structure_ok, bulk_ok, rename_ok) ==
    LET prepared == grist_formatted_records(records, GristStructure)
        moved == IF rename_ok THEN "archive" ELSE "upload"
    IN  IF ~conn_ok \/ ~read_ok THEN Uploaded(1, "upload", 0, <<>>)
        ELSE IF records = <<>> THEN Uploaded(0, moved, 0, <<>>)
        ELSE IF ~structure_ok \/ prepared = <<>> THEN Uploaded(1, moved, 0, <<>>)
        ELSE IF ~bulk_ok
        THEN Uploaded(1, moved, Len(create_grist_records_bulk(prepared)), <<>>)
        ELSE Uploaded(IF rename_ok THEN 0 ELSE 1, moved,
                      Len(create_grist_records_bulk(prepared)),
                      Flatten(create_grist_records_bulk(prepared)))

\* uploadToGrist.main from test_grist_connection on (lines 485-511), with
\* upload_records_to_grist and archive_csv_file, for the records of the latest CSV:
\* conn_ok, structure_ok and bulk_ok tell whether the connection test, the schema
\* query and the insert request succeed, read_ok whether the CSV can be read and
\* rename_ok whether os.rename succeeds.
upload_csv(records, conn_ok, read_ok, structure_ok, bulk_ok, rename_ok) ==
    LET prepared == grist_formatted_records(records, GristStructure)
        moved == IF rename_ok THEN "archive" ELSE "upload"
    IN  IF ~conn_ok \/ ~read_ok THEN Uploaded(1, "upload", 0, <<>>)
        ELSE IF records = <<>> THEN Uploaded(0, moved, 0, <<>>)
        ELSE IF ~structure_ok \/ prepared = <<>> THEN Uploaded(1, "upload", 0, <<>>)
        ELSE IF ~bulk_ok
        THEN Uploaded(1, "upload", Len(create_grist_records_bulk(prepared)), <<>>)
        ELSE Uploaded(IF rename_ok THEN 0 ELSE 1, moved,
                      Len(create_grist_records_bulk(prepared)),
                      Flatten(create_grist_records_bulk(prepared)))

\* uploadToGrist.main applied to the latest CSV of the upload directory.
ApplyUpload ==
    /\ fn = NoFn
    /\ \E records \in SeqsUpTo(FnCsvRows, MaxCsvRows) :
       \E conn_ok \in BOOLEAN : \E read_ok \in BOOLEAN : \E structure_ok \in BOOLEAN :
       \E bulk_ok \in BOOLEAN : \E rename_ok \in BOOLEAN :
          fn' = [op |-> "upload", records |-> records, conn_ok |-> conn_ok,
                 read_ok |-> read_ok, structure_ok |-> structure_ok,
                 bulk_ok |-> bulk_ok, rename_ok |-> rename_ok,
                 result |-> upload_csv(records, conn_ok, read_ok, structure_ok,
                                       bulk_ok, rename_ok)]
    /\ FnUnchanged
\* A record of the data file through both stages, the destination being empty:
\* file_dt_obj is the instant the filter compares with the cursor, is_new its
\* classification, row the row create_grist_records_from_file writes to the CSV and
\* sent the Transaction_Date that uploadToGrist prepares from that row.
ApplyStages ==
    /\ fn = NoFn
    /\ \E d \in FnDateValues : \E bank \in FnBanks :
          LET f == SheetRow(FileRecord(d, "X", AmountText(<<"5">>), bank), 1)
              file_dt_obj == normalize_date(f.date, f.bank)
              row == row_to_write(f)
          IN  fn' = [op |-> "stages", file_record |-> f, file_dt_obj |-> file_dt_obj,
                     is_new |-> should_process_record(f, file_dt_obj, Nothing, <<>>),
                     row |-> row,
                     sent |-> prepare_grist_record(row, GristStructure).Transaction_Date]
    /\ FnUnchanged
\* The counts of seconds of the epoch inputs: both ends of the range, their
\* neighbours, a second of 2025 and a negative number.
FnEpochs ==
    { Epoch(FALSE, 0, 0), Epoch(FALSE, 0, 1), Epoch(FALSE, 17513, 28000),
      Epoch(FALSE, 41024, 44799), Epoch(FALSE, 41024, 44800),
      Epoch(FALSE, 41024, 44801), Epoch(FALSE, 41025, 0), Epoch(TRUE, 0, 1) }

\* The date values of the epoch inputs: a text of digits (which has no sign) or a
\* number.
FnEpochValues ==
    { DateDigits(e) : e \in { x \in FnEpochs : ~x.neg } }
    \cup { DateNumber(e) : e \in FnEpochs }

\* normalize_date of the three scripts applied to a text of digits or a number.
ApplyNormalizeEpoch ==
    /\ fn = NoFn
    /\ \E d \in FnEpochValues : \E bank \in FnBanks :
          fn' = [op |-> "normalize_epoch", date_value |-> d, bank_name |-> bank,
                 result |-> normalize_date(d, bank),
                 up |-> up_normalize_date(d, bank),
                 gbu |-> gbu_normalize_date(d, bank)]
    /\ FnUnchanged
NextFn ==
    \/ ApplyRecordMatches
    \/ ApplyCursor
    \/ ApplyClassify
    \/ ApplyNormalizeDate
    \/ ApplyNormalizeAmount
    \/ ApplyFilter
    \/ ApplyPrepare
    \/ ApplyMain
    \/ ApplyArchive
    \/ ApplyClassifyRow
    \/ ApplyUpload
    \/ ApplyStages
    \/ ApplyNormalizeEpoch

SpecFn == InitFn /\ [][NextFn]_vars

(***************************************************************************)
(* SpecDays: the wrapper run day after day.  The data file and the CSV of  *)
(* a day are named after its date (ddmmyy.txt, ddmmyy.csv); a CSV is       *)
(* known here by the number of its day.  What the records are is left      *)
(* open: whether the filter finds new records is a choice of the step.     *)
(***************************************************************************)

\* A CSV of the upload directory; failed tells that an upload of it has failed.
CsvFile(name, failed) == [name |-> name, failed |-> failed]

\* os.listdir of the upload directory sorted by os.path.getmtime, oldest first.
\* open(output_csv_path, 'w') of create_grist_records_from_file: a CSV of that name
\* is replaced, and the file written is the most recently modified one.
write_csv(csv_files, name) ==
    SelectSeq(csv_files, LAMBDA c : c.name # name) \o <<CsvFile(name, FALSE)>>

\* csv_files[0] after the sort with reverse=True of uploadToGrist.main: the most
\* recently modified CSV.
latest_csv_file(csv_files) == csv_files[Len(csv_files)]

InitDays ==
    /\ sheet = <<>>
    /\ dataFile = Nothing
    /\ uploadDir = Nothing
    /\ archive = <<>>
    /\ grist = <<>>
    /\ pc = "idle"
    /\ run = [n |-> 0]
    /\ fn = NoFn
    /\ days = [today |-> 1, dataFile |-> FALSE, csvFiles |-> <<>>, uploaded |-> {},
               pc |-> "idle"]

DaysUnchanged == UNCHANGED <<sheet, dataFile, uploadDir, archive, grist, pc, run, fn>>

\* The date changes between two runs of the wrapper: the data file of the new day
\* is not there yet.
DaysNextDay ==
    /\ days.pc = "idle"
    /\ days.today < MaxDays
    /\ days' = [days EXCEPT !.today = @ + 1, !.dataFile = FALSE]
    /\ DaysUnchanged

\* Today's data file appears in DATA_DIR.
DaysPlaceDataFile ==
    /\ ~days.dataFile
    /\ days' = [days EXCEPT !.dataFile = TRUE]
    /\ DaysUnchanged

\* run_bank_sync.main up to the choice of the first script (lines 64-77).
DaysMainStart ==
    /\ days.pc = "idle"
    /\ days' = [days EXCEPT !.pc = IF days.dataFile THEN "create" ELSE "banksync"]
    /\ DaysUnchanged

\* BankSync.py and lines 77-84 of the wrapper: it goes on only when the script
\* succeeded and the data file is there.
DaysBankSync ==
    /\ days.pc = "banksync"
    /\ \E script_ok \in BOOLEAN :
          days' = [days EXCEPT !.pc = IF script_ok /\ days.dataFile
                                      THEN "create" ELSE "idle"]
    /\ DaysUnchanged

\* createGristRecords.py: when the filter finds new records and the CSV can be
\* written, today's CSV is written; the data file is archived.
DaysCreate ==
    /\ days.pc = "create"
    /\ \E new_records \in BOOLEAN : \E write_ok \in BOOLEAN :
          days' = IF ~days.dataFile THEN [days EXCEPT !.pc = "upload"]
                  ELSE [days EXCEPT
                          !.pc = "upload",
                          !.dataFile = FALSE,
                          !.csvFiles = IF new_records /\ write_ok
                                       THEN write_csv(@, days.today) ELSE @,
                          !.uploaded = IF new_records /\ write_ok
                                       THEN @ \ {days.today} ELSE @]
    /\ DaysUnchanged

\* uploadToGrist.py with no CSV in the upload directory (lines 475-477).
DaysUploadNothing ==
    /\ days.pc = "upload"
    /\ days.csvFiles = <<>>
    /\ days' = [days EXCEPT !.pc = "idle"]
    /\ DaysUnchanged

\* uploadToGrist.py, every step succeeding: the records of the latest CSV are
\* inserted and that CSV is moved to the archive.
DaysUploadOk ==
    /\ days.pc = "upload"
    /\ days.csvFiles # <<>>
    /\ days' = [days EXCEPT !.pc = "idle",
                            !.csvFiles = SubSeq(@, 1, Len(@) - 1),
                            !.uploaded = @ \cup {latest_csv_file(days.csvFiles).name}]
    /\ DaysUnchanged

\* uploadToGrist.py, a step failing: the latest CSV stays where it is.
DaysUploadFail ==
    /\ days.pc = "upload"
    /\ days.csvFiles # <<>>
    /\ days' = [days EXCEPT !.pc = "idle",
                            !.csvFiles[Len(days.csvFiles)].failed = TRUE]
    /\ DaysUnchanged

NextDays ==
    \/ DaysNextDay
    \/ DaysPlaceDataFile
    \/ DaysMainStart
    \/ DaysBankSync
    \/ DaysCreate
    \/ DaysUploadNothing
    \/ DaysUploadOk
    \/ DaysUploadFail

\* The wrapper keeps being run, its scripts end, data files keep arriving, and an
\* upload that can succeed again and again does succeed again and again.
SpecDays ==
    /\ InitDays /\ [][NextDays]_vars
    /\ WF_vars(DaysPlaceDataFile)
    /\ WF_vars(DaysMainStart)
    /\ WF_vars(DaysBankSync)
    /\ WF_vars(DaysCreate)
    /\ WF_vars(DaysUploadNothing \/ DaysUploadOk \/ DaysUploadFail)
    /\ SF_vars(DaysUploadOk)

(***************************************************************************)
(* Claims about the pipeline                                               *)
(***************************************************************************)

\* The positions of the records a step added to the destination.
Added == (Len(grist) + 1)..Len(grist')

\* C1: a run that follows a successful run which put records into the destination,
\* the sheet being the same, inserts no record.
C1_SecondRunInsertsNothing ==
    (run.n >= 2 /\ run.prevExit = "ok" /\ run.prevInserted > 0) => run.inserted = 0

\* C2: once a run has ended with its CSV left in UPLOAD_DIR, no later step inserts a
\* source record that the destination already holds.
C2_NoDoubleInsertionOnRetry ==
    [][run.leftStaged =>
         \A i \in Added : \A j \in 1..Len(grist) : grist'[i].src # grist[j].src]_vars

\* C3: a file moves to the archive only after the bulk insert of the run has
\* succeeded, or when the filtered set of the run is empty.
C3_ArchiveOnlyAfterInsert ==
    [][Len(archive') > Len(archive) => (run.bulkOk \/ run'.filtered = 0)]_vars

\* C4: every record a step adds to the destination is a row of the CSV staged in
\* UPLOAD_DIR at that moment.
C4_StagedBeforeInsert ==
    [][\A i \in Added :
          /\ uploadDir.ok
          /\ \E k \in 1..Len(uploadDir.v) : uploadDir.v[k].src = grist'[i].src]_vars

\* C5: a run that starts with a CSV staged by a run whose upload did not succeed
\* does not fetch from the sheet.
C5_ResumeWithoutFetch ==
    (run.prevExit \in {"fail", "killed"} /\ run.csvAtStart) => ~run.fetched


\* The rows of the sheet (by position) that a sequence of records comes from.
Sources(records) == { records[i].src : i \in 1..Len(records) }

\* C29: every record the filter of the run classified as new is in the destination,
\* in the data file of DATA_DIR or in the CSV of UPLOAD_GRIST_DIR.
C29_NoBatchLost ==
    \A s \in run.staged :
        \/ s \in Sources(grist)
        \/ dataFile.ok /\ s \in Sources(dataFile.v)
        \/ uploadDir.ok /\ s \in Sources(uploadDir.v)
\* C11: when the data file of the run holds no records, the filter stage completes
\* and archives it, and the wrapper run sends no bulk-insert request, whatever CSV
\* an earlier run left in UPLOAD_DIR.
C11_EmptyFetchNoBulkInsert ==
    [][/\ (pc = "create" /\ dataFile.ok /\ dataFile.v = <<>> /\ pc' = "upload") =>
              (archive' = Append(archive, "txt") /\ ~dataFile'.ok)
       /\ run'.emptyFile => run'.bulkCalls = 0]_vars

\* C12: a run of uploadToGrist sends at most one insert request, and when the
\* request succeeded it carried every record prepared from the staged CSV, which
\* are then the last records of the destination.
C12_SingleBulkInsert ==
    /\ run.bulkCalls <= 1
    /\ pc = "archive_csv" =>
          LET prepared == grist_formatted_records(uploadDir.v, GristStructure)
          IN  /\ run.bulkCalls = 1
              /\ run.bulkSize = Len(prepared)
              /\ Len(grist) >= Len(prepared)
              /\ SubSeq(grist, Len(grist) - Len(prepared) + 1, Len(grist)) = prepared

\* C12 witness: a CSV of two rows has been inserted with one request.
C12_WitnessTwoRecordsOneRequest ==
    /\ pc = "archive_csv"
    /\ Len(uploadDir.v) = 2
    /\ run.bulkCalls = 1 /\ run.bulkSize = 2

\* C13: when the cursor query does not answer with status 200, the filter stage
\* writes no CSV and leaves the data file where it is (nothing is archived).
C13_CursorFailureAborts ==
    [][(pc = "create" /\ pc' = "upload" /\ run'.cursorFailed) =>
           (uploadDir' = uploadDir /\ archive' = archive /\ dataFile' = dataFile)]_vars

(***************************************************************************)
(* Claims about the normalizers (checked under SpecFn)                     *)
(***************************************************************************)

\* C14: in each of the three date normalizers the text 07/02/2025 normalizes to
\* 2 July 2025 under the ICICI hint and to 7 February 2025 under any other hint or
\* no hint.
C14_AmbiguousDateByBank ==
    (fn.op = "normalize_date" /\ fn.date_value = DateText("/", 7, 2, -1)) =>
        LET expected == IF IsICICI(fn.bank_name) THEN Just(Instant(7, 2, 0))
                        ELSE Just(Instant(2, 7, 0))
        IN  fn.result = expected /\ fn.up = expected /\ fn.gbu = expected

\* C15: for every date text normalize_date accepts under a bank hint, the instant
\* written in the MM/DD/YYYY HH:MM:SS output format and normalized again under the
\* same hint is the same instant.
C15_DateRoundTrip ==
    (fn.op = "normalize_date" /\ fn.result.ok) => fn.reparsed = fn.result

\* The month-first, day-first and year-first readings of a date text.
MdReading(d) ==
    IF d.k = "text" /\ d.sep \in {"/", "-"} /\ ValidDate(d.a, d.b)
    THEN Just(Instant(d.a, d.b, IF d.t >= 0 THEN d.t ELSE 0)) ELSE Nothing

DmReading(d) ==
    IF d.k = "text" /\ d.sep \in {"/", "-"} /\ ValidDate(d.b, d.a)
    THEN Just(Instant(d.b, d.a, IF d.t >= 0 THEN d.t ELSE 0)) ELSE Nothing

YmdReading(d) ==
    IF d.k = "text" /\ d.sep = "iso" /\ ValidDate(d.a, d.b)
    THEN Just(Instant(d.a, d.b, IF d.t >= 0 THEN d.t ELSE 0)) ELSE Nothing

\* The reading the fallback chain of a hint gives a date text.
ChainReading(d, bank) ==
    LET first == IF IsICICI(bank) THEN MdReading(d) ELSE DmReading(d)
        second == IF IsICICI(bank) THEN DmReading(d) ELSE MdReading(d)
    IN  IF first.ok THEN first ELSE IF second.ok THEN second ELSE YmdReading(d)

\* C16: _parse_date_string of createGristRecords and of gristbankupdater gives a
\* text the month-first reading before the day-first one under the ICICI hint, the
\* day-first reading before the month-first one under any other hint, and the
\* year-first reading last; a text with one valid order gets it under every hint.
C16_FallbackChain ==
    (fn.op = "normalize_date" /\ fn.date_value.k = "text") =>
        /\ fn.result = ChainReading(fn.date_value, fn.bank_name)
        /\ fn.gbu = ChainReading(fn.date_value, fn.bank_name)

\* The fallback chain of createGristRecords._parse_date_string alone.
FallbackChainOfCreateGristRecords ==
    (fn.op = "normalize_date" /\ fn.date_value.k = "text") =>
        fn.result = ChainReading(fn.date_value, fn.bank_name)

\* C17: a record of the data file whose Transaction Date does not normalize is not
\* dropped by the filter for that reason: it is in the staged output.
C17_UnparseableDateIsStaged ==
    fn.op = "filter" =>
        \A i \in 1..Len(fn.file_records) :
            ~normalize_date(fn.file_records[i].date, fn.file_records[i].bank).ok =>
                \E k \in 1..Len(fn.result) : fn.result[k] = fn.file_records[i]

\* The characters normalize_amount is to remove, and those of a blank text.
IsSign(c) == c \in {"$", ",", "R"}
IsKept(c) == ~IsSign(c)
IsBlankChar(c) == IsSign(c) \/ c = " "

\* A numeral: digits, with an optional minus sign in front and spaces around.
IsNumeral(s) ==
    \E i \in 1..Len(s) : \E j \in i..Len(s) :
        /\ \A k \in 1..(i - 1) : s[k] = " "
        /\ \A k \in (j + 1)..Len(s) : s[k] = " "
        /\ \/ \A k \in i..j : s[k] \in Digits
           \/ (s[i] = "-" /\ j > i /\ \A k \in (i + 1)..j : s[k] \in Digits)

\* The number a numeral denotes.
NumeralValue(s) ==
    LET digits == SelectSeq(s, LAMBDA c : c \in Digits)
        minus == \E k \in 1..Len(s) : s[k] = "-"
    IN  IF minus THEN 0 - DigitsValue(digits) ELSE DigitsValue(digits)

\* C18: normalize_amount (createGristRecords and uploadToGrist) removes every '$',
\* ',' and rupee sign before parsing; None, the empty text and a text that is
\* blank once they are removed yield absent, never zero; a text that is not a
\* numeral once they are removed yields absent.
C18_AmountNormalization ==
    (fn.op = "normalize_amount" /\ fn.amount_value.k # "num") =>
        LET v == fn.amount_value
            kept == SelectSeq(v.s, IsKept)
            expected ==
                IF v.k = "none" THEN Nothing
                ELSE IF \A i \in 1..Len(v.s) : IsBlankChar(v.s[i]) THEN Nothing
                ELSE IF IsNumeral(kept) THEN Just(NumeralValue(kept))
                ELSE Nothing
        IN  fn.result = expected /\ fn.up = expected

\* C18 witness: a text with a comma between two digits has been normalized to the
\* number its digits write.
C18_WitnessCommaRemoved ==
    /\ fn.op = "normalize_amount"
    /\ fn.amount_value = AmountText(<<"5", ",", "0">>)
    /\ fn.result = Just(50)

\* C19: the record prepare_grist_record returns (uploadToGrist and
\* gristbankupdater) holds no field whose value is None; a field whose
\* normalization fails is left out of the record.
C19_NoNullFields ==
    fn.op = "prepare_grist_record" =>
        LET r == fn.sheet_record
            st == fn.grist_structure
        IN  /\ \A c \in DOMAIN fn.result : fn.result[c].k # "null"
            /\ \A c \in DOMAIN fn.gbu : fn.gbu[c].k # "null"
            /\ \A f \in UsableFields(r, up_google_to_grist_map, st) :
                  LET c == grist_field(f, up_google_to_grist_map, st)
                  IN  up_normalized_value(f, r[f], c, st[c], BankOf(r)).k = "null"
                          => c \notin DOMAIN fn.result

\* C19 witness: a record whose Transaction Date does not normalize has been
\* prepared for a schema with the column Transaction_Date; the result holds other
\* fields and not that one.
C19_WitnessFailedFieldLeftOut ==
    /\ fn.op = "prepare_grist_record"
    /\ fn.sheet_record["Transaction Date"] = FvDate(JunkDate)
    /\ "Transaction_Date" \in DOMAIN fn.grist_structure
    /\ "Transaction_Date" \notin DOMAIN fn.result
    /\ "Transaction_Description" \in DOMAIN fn.result

\* The normalizer that produced the value of a column of a prepared record
\* ("null" when the record does not hold the column).
KindOf(prepared, c) == IF c \in DOMAIN prepared THEN prepared[c].k ELSE "null"

\* C20 as stated: the declared type of the resolved column alone selects the
\* normalizer; when the type is Text or unknown the raw value is passed through as
\* text, for every source field, Transaction Date, Value Date and GSheets_RowNum
\* included.
C20_TypeAloneSelects ==
    fn.op = "prepare_grist_record" =>
        LET r == fn.sheet_record
            st == fn.grist_structure
        IN  \A f \in UsableFields(r, up_google_to_grist_map, st) :
                LET c == grist_field(f, up_google_to_grist_map, st)
                IN  st[c] \notin {"Date", "Numeric", "Int"} =>
                        (KindOf(fn.result, c) = "raw" /\ fn.result[c].v = r[f])

\* C20 amended: the declared type of the resolved column selects the normalizer
\* (Date: the date normalizer; Numeric: the amount normalizer; Int, in uploadToGrist:
\* the integer normalizer; any other type: the raw value as text, the number 0
\* being left out) except for the source fields the code names: Transaction Date and Value Date are always given
\* to the date normalizer (in gristbankupdater unless the column is Numeric), and
\* in uploadToGrist GSheets_RowNum is given to the integer normalizer unless its
\* column is Date or Numeric.
C20_TypeSelectsExceptNamedFields ==
    fn.op = "prepare_grist_record" =>
        LET r == fn.sheet_record
            st == fn.grist_structure
        IN  /\ \A f \in UsableFields(r, up_google_to_grist_map, st) :
                  LET c == grist_field(f, up_google_to_grist_map, st)
                      k == KindOf(fn.result, c)
                  IN  IF st[c] = "Date" \/ f \in {"Transaction Date", "Value Date"}
                      THEN k \in {"date", "null"}
                      ELSE IF st[c] = "Numeric" THEN k \in {"num", "null"}
                      ELSE IF st[c] = "Int" \/ f = "GSheets_RowNum"
                      THEN k \in {"int", "null"}
                      ELSE IF IsFalsy(r[f]) THEN k = "null"
                      ELSE k = "raw" /\ fn.result[c].v = r[f]
            /\ \A f \in UsableFields(r, gbu_google_to_grist_map, st) :
                  LET c == grist_field(f, gbu_google_to_grist_map, st)
                      k == KindOf(fn.gbu, c)
                  IN  IF st[c] = "Date" THEN k \in {"datetime", "null"}
                      ELSE IF st[c] = "Numeric" THEN k \in {"num", "null"}
                      ELSE IF f \in {"Transaction Date", "Value Date"}
                      THEN k \in {"datetime", "null"}
                      ELSE IF IsFalsy(r[f]) THEN k = "null"
                      ELSE k = "raw" /\ fn.gbu[c].v = r[f]

\* C20 witness: a record has been prepared for a schema whose Transaction_Date
\* column is Text: the date was normalized, the description passed through.
C20_WitnessDateInTextColumn ==
    /\ fn.op = "prepare_grist_record"
    /\ "Transaction_Date" \in DOMAIN fn.grist_structure
    /\ fn.grist_structure["Transaction_Date"] = "Text"
    /\ KindOf(fn.result, "Transaction_Date") = "date"
    /\ KindOf(fn.result, "Transaction_Description") = "raw"


(***************************************************************************)
(* Claims about the entry points (checked under SpecFn)                    *)
(***************************************************************************)

\* C21: when a required connection parameter is missing, the main of each entry
\* point returns a non-zero status and has performed no operation on the data,
\* upload or archive directory.
C21_ConfigErrorBeforeAnyIO ==
    (fn.op = "main" /\ fn.env # RequiredVars) =>
        /\ fn.result.exit.ok
        /\ fn.result.exit.v # 0
        /\ fn.result.io = <<>>

\* C22: after any sequence of archive operations every file that was moved to the
\* archive directory is still there under the name it was moved to.
C22_ArchiveNeverOverwritten ==
    fn.op = "archive" =>
        \A m \in fn.result.moved :
            m.name \in DOMAIN fn.result.dir /\ fn.result.dir[m.name] = m.file

(***************************************************************************)
(* Claims about the filter and the stages (checked under SpecFn)           *)
(***************************************************************************)

\* The positions of the records of the data file that should_process_record accepts
\* against the cursor of the application.
AcceptedPositions ==
    { i \in 1..Len(fn.file_records) :
        should_process_record(fn.file_records[i],
                              normalize_date(fn.file_records[i].date,
                                             fn.file_records[i].bank),
                              fn.last_grist_dt_obj, fn.last_grist_records) }

\* C23: the rows written to the staged CSV come from the records of the data file
\* that the classification accepts, every such record and no other, in the order
\* of the data file.
C23_FilterPreservesOrder ==
    fn.op = "filter" =>
        /\ { fn.rows[k].src : k \in 1..Len(fn.rows) } = AcceptedPositions
        /\ \A k \in 1..Len(fn.rows) : \A l \in 1..Len(fn.rows) :
              k < l => fn.rows[k].src < fn.rows[l].src
        /\ \A k \in 1..Len(fn.rows) :
              fn.rows[k] = row_to_write(SheetRow(fn.file_records[fn.rows[k].src],
                                                 fn.rows[k].src))

\* C23 witness: a data file of two different records, both accepted and written.
C23_WitnessTwoRowsInOrder ==
    /\ fn.op = "filter"
    /\ Len(fn.file_records) = 2
    /\ fn.file_records[1] # fn.file_records[2]
    /\ Len(fn.rows) = 2
    /\ fn.last_grist_dt_obj.ok

\* C24: a source record that carries a row number is classified as new if and only
\* if the destination is empty or the row number is greater than the greatest row
\* number stored in the destination.
C24_RowSequenceStrategy ==
    fn.op = "should_process_record_row" =>
        (fn.result <=>
            \/ fn.table = <<>>
            \/ \A i \in 1..Len(fn.table) :
                  fn.file_record.GSheets_RowNum > fn.table[i].GSheets_RowNum)

(***************************************************************************)
(* Claims about failures in the pipeline (checked under Spec)              *)
(***************************************************************************)

\* C25: once a stage of a wrapper run has failed (the cursor query did not answer
\* with status 200, or writing the CSV raised an exception), the wrapper has ended
\* with a non-zero status and no later stage is running.
C25_FailureReachesExitCode ==
    (run.cursorFailed \/ run.writeFailed) => (pc = "idle" /\ run.exit # "ok")

\* C26: when the schema query fails, the insert request fails or no record could
\* be prepared, uploadToGrist.main returns 1 and leaves the CSV in the upload
\* directory; the CSV is in the archive only when the insert request succeeded with
\* every prepared record or the CSV holds no records.
C26_FailedUploadKeepsCsv ==
    fn.op = "upload" =>
        LET prepared == grist_formatted_records(fn.records, GristStructure)
        IN  /\ (fn.records # <<>>
                /\ (~fn.structure_ok \/ ~fn.bulk_ok \/ prepared = <<>>)) =>
                   (fn.result.exit = 1 /\ fn.result.csv = "upload")
            /\ fn.result.csv = "archive" =>
                   \/ fn.records = <<>>
                   \/ (fn.bulk_ok /\ prepared # <<>> /\ fn.result.posted = prepared)

\* C26 witness: the connection and the schema query succeeded, a record was
\* prepared, the insert request was sent and failed, and the CSV stayed.
C26_WitnessBulkFailedCsvKept ==
    /\ fn.op = "upload"
    /\ fn.conn_ok /\ fn.read_ok /\ fn.structure_ok /\ ~fn.bulk_ok /\ fn.rename_ok
    /\ Len(fn.records) = 2
    /\ fn.result.bulk_calls = 1
    /\ fn.result = Uploaded(1, "upload", 1, <<>>)

\* C27: for a record the filter classifies as new, the Transaction_Date the upload
\* stage sends (a text %Y-%m-%d %H:%M:%S) denotes the instant the filter compared
\* with the cursor.
C27_StagesAgreeOnDate ==
    (fn.op = "stages" /\ fn.is_new) =>
        Strptime(fn.sent, Fmt("ymd", "iso", TRUE)) = fn.file_dt_obj

(***************************************************************************)
(* Claims about the upload directory over the days (checked under SpecDays)*)
(***************************************************************************)

\* C28: a CSV that a failed upload left in the upload directory is eventually
\* uploaded and archived.
C28_NoCsvStarved ==
    \A name \in 1..MaxDays :
        (\E i \in 1..Len(days.csvFiles) :
            days.csvFiles[i].name = name /\ days.csvFiles[i].failed)
        ~> (name \in days.uploaded)

\* C30: a date value made of digits, text or number, normalizes to an instant if
\* and only if its value lies between 0 and 4102444800, both included, and then to
\* the instant of that second, in each of the three scripts.
C30_EpochRange ==
    fn.op = "normalize_epoch" =>
        LET e == fn.date_value.e
            in_range == ~e.neg /\ (e.hi < 41024 \/ (e.hi = 41024 /\ e.lo <= 44800))
            expected == IF in_range THEN Just(FromTimestamp(e)) ELSE Nothing
        IN  fn.result = expected /\ fn.up = expected /\ fn.gbu = expected
====
